---- MODULE Spec2Model ----
(***************************************************************************)
(* Model of revision_pipeline: the diff-driven block accumulator           *)
(* (pipeline._parse_diff), the revision driver                             *)
(* (pipeline._process_revisions_since_revid) and the Intermediate store    *)
(* (intermediate.Intermediate).                                            *)
(*                                                                         *)
(* Texts are sequences of one-character strings.  A hash is modelled by    *)
(* the trimmed text it is the md5 of (md5 is taken to be injective).       *)
(* Python's None is the tuple <<"None">>; an attribute that was never      *)
(* assigned on a Block object is <<"ABSENT">>.                             *)
(***************************************************************************)
EXTENDS Integers, Sequences, FiniteSets, TLC

\* ------------------------------------------------------------------------
\* Bounds
\* ------------------------------------------------------------------------

\* most rows, over all the diffs of the page's history, that are applied
MaxRows == 3

\* deepest indentation passed to compute_reply_hash as the previous depth
MaxDepth == 2

\* rows of the diffs of the page of one thread
MaxThreadRows == 4

\* ------------------------------------------------------------------------
\* Python values
\* ------------------------------------------------------------------------

None == <<"None">>

Absent == <<"ABSENT">>

\* the values of the attribute is_header, which a Block may lack
PyTrue == <<"True">>

PyFalse == <<"False">>

\* result of a lookup that raises KeyError
KeyError == <<"KeyError">>

\* result of a walk that never ends
Loops == <<"Loops">>

\* block.user = None, and the default of revisions[1].get("user", "userhidden")
NoUser == "None"

UserHidden == "userhidden"

\* the "unknown" entry of revision_ids
Unknown == -1

\* block_depth = None, last_depth = None
NoneDepth == -2

\* ------------------------------------------------------------------------
\* Texts
\* ------------------------------------------------------------------------

T_head == <<"=", "=", "s", "=", "=">>

T_a == <<"a">>

T_a_sp == <<"a", " ">>

T_b == <<":", "b">>

T_colon == <<":">>

T_blank == <<" ">>

T_empty == <<>>

\* a line that holds whitespace other than spaces
T_nl == <<"\n">>

Texts == {T_head, T_a, T_a_sp, T_b, T_colon, T_blank, T_empty, T_nl}

Whitespace == {" ", "\n"}

RECURSIVE LStrip(_, _)
LStrip(s, chars) ==
    IF s # <<>> /\ Head(s) \in chars THEN LStrip(Tail(s), chars) ELSE s

RECURSIVE RStrip(_, _)
RStrip(s, chars) ==
    IF s # <<>> /\ s[Len(s)] \in chars
    THEN RStrip(SubSeq(s, 1, Len(s) - 1), chars)
    ELSE s

\* str.strip(chars)
Strip(s, chars) == RStrip(LStrip(s, chars), chars)

\* s[:n]
Prefix(s, n) == SubSeq(s, 1, IF n < Len(s) THEN n ELSE Len(s))

\* s[-n:]
Suffix(s, n) == SubSeq(s, IF n < Len(s) THEN Len(s) - n + 1 ELSE 1, Len(s))

\* helpers.compute_md5: md5 of the text stripped of all whitespace
compute_md5(s) == Strip(s, Whitespace)

\* helpers.compute_text_depth raises IndexError when it runs off the text
compute_text_depth_raises(text) == \A k \in 1..Len(text) : text[k] = ":"

RECURSIVE compute_text_depth(_)
compute_text_depth(text) ==
    IF text # <<>> /\ Head(text) = ":"
    THEN 1 + compute_text_depth(Tail(text))
    ELSE 0

is_new_section_text(added_text) ==
    \/ Prefix(added_text, 3) = <<"=", "=", "=">> /\ Suffix(added_text, 3) = <<"=", "=", "=">>
    \/ Prefix(added_text, 2) = <<"=", "=">> /\ Suffix(added_text, 2) = <<"=", "=">>

\* ------------------------------------------------------------------------
\* Diff rows: a row is the sequence of its <td> cells
\* ------------------------------------------------------------------------

NoAnchor == <<"NoAnchor">>

\* a <td>: its class, its text and, when it holds an <a>, the text of the
\* paragraph the anchor is paired with
Cell(class, text, anchor) == [class |-> class, text |-> text, anchor |-> anchor]

UneditedRow(t) ==
    << Cell("diff-marker", <<" ">>, NoAnchor), Cell("diff-context", t, NoAnchor),
       Cell("diff-marker", <<" ">>, NoAnchor), Cell("diff-context", t, NoAnchor) >>

NewContentRow(t) ==
    << Cell("diff-empty", <<>>, NoAnchor), Cell("diff-marker", <<"+">>, NoAnchor),
       Cell("diff-addedline", t, NoAnchor) >>

MovedRightRow(t, old) ==
    << Cell("diff-empty", <<>>, NoAnchor), Cell("diff-marker", <<"+">>, old),
       Cell("diff-addedline", t, NoAnchor) >>

RemovalRow(t) ==
    << Cell("diff-marker", <<"-">>, NoAnchor), Cell("diff-deletedline", t, NoAnchor),
       Cell("diff-empty", <<>>, NoAnchor) >>

MovedLeftRow(t) ==
    << Cell("diff-marker", <<"-">>, t), Cell("diff-deletedline", t, NoAnchor),
       Cell("diff-empty", <<>>, NoAnchor) >>

ModificationRow(old, new) ==
    << Cell("diff-marker", <<"-">>, NoAnchor), Cell("diff-deletedline", old, NoAnchor),
       Cell("diff-marker", <<"+">>, NoAnchor), Cell("diff-addedline", new, NoAnchor) >>

LineNumberRow ==
    << Cell("diff-lineno", <<"L">>, NoAnchor), Cell("diff-lineno", <<"L">>, NoAnchor) >>

\* a row of a shape the applier does not know
UnknownRow == << Cell("diff-other", <<>>, NoAnchor) >>

\* no row of the diff has been applied yet
NoRow == <<>>

is_unedited_tr(all_td) == Len(all_td) = 4 /\ all_td[1] = all_td[3]

is_new_content_tr(all_td) ==
    Len(all_td) = 3 /\ all_td[1].class = "diff-empty" /\ all_td[3].class = "diff-addedline"

is_removal_tr(all_td) ==
    Len(all_td) = 3 /\ all_td[2].class = "diff-deletedline" /\ all_td[3].class = "diff-empty"

is_modification_tr(all_td) ==
    Len(all_td) = 4 /\ all_td[2].class = "diff-deletedline" /\ all_td[4].class = "diff-addedline"

is_line_number_tr(all_td) ==
    Len(all_td) = 2 /\ all_td[1].class = "diff-lineno" /\ all_td[2].class = "diff-lineno"

\* helpers.is_moved_right_tr is called by _parse_diff and is not in helpers.py:
\* an added row that carries an anchor to its paired left-side paragraph
is_moved_right_tr(all_td) == all_td[2].anchor # NoAnchor

\* helpers.is_moved_left_tr, likewise: a removed row that carries an anchor
is_moved_left_tr(all_td) == all_td[1].anchor # NoAnchor

\* ------------------------------------------------------------------------
\* Block and Intermediate
\* ------------------------------------------------------------------------

\* d[k] = v on a dict
Put(d, k, v) == [x \in DOMAIN d \cup {k} |-> IF x = k THEN v ELSE d[x]]

\* del d[k] (the caller checks k is a key)
Del(d, k) == [x \in DOMAIN d \ {k} |-> d[x]]

EmptyDict == [x \in {} |-> None]

\* Block(): is_header and root_hash are not attributes until assigned
NewBlock ==
    [ text         |-> None,
      timestamp    |-> 0,
      user         |-> NoUser,
      ingested     |-> FALSE,
      revision_ids |-> <<>>,
      reply_chain  |-> <<>>,
      is_followed  |-> FALSE,
      is_header    |-> Absent,
      root_hash    |-> Absent ]

\* Intermediate.find_ultimate_hash: the walk raises KeyError on a hash that
\* is no key of hash_lookup, and never ends on a cycle
RECURSIVE find_ultimate_hash_from(_, _, _)
find_ultimate_hash_from(hash_lookup, h, fuel) ==
    IF h \notin DOMAIN hash_lookup THEN KeyError
    ELSE IF hash_lookup[h] = h THEN h
    ELSE IF fuel = 0 THEN Loops
    ELSE find_ultimate_hash_from(hash_lookup, hash_lookup[h], fuel - 1)

find_ultimate_hash(hash_lookup, h) ==
    find_ultimate_hash_from(hash_lookup, h, Cardinality(DOMAIN hash_lookup))

\* compute_reply_hash without "elif this_depth > reply_to_depth: return
\* reply_to_hash"
compute_reply_hash_no_direct(blocks, reply_to_hash, reply_to_depth, this_depth) ==
    None

\* Intermediate.compute_reply_hash.  In the last branch the loop body reads
\* reply_block.reply_to, which no Block has: the bare except returns None;
\* when the loop ends (or never runs) the function falls off its end.
compute_reply_hash(blocks, reply_to_hash, reply_to_depth, this_depth) ==
    IF this_depth = 0 THEN None
    ELSE IF this_depth > reply_to_depth THEN reply_to_hash
    ELSE IF reply_to_depth > this_depth
         THEN (IF reply_to_hash \notin DOMAIN blocks THEN None ELSE None)
         ELSE None

\* revisions[1].get("user", "userhidden")
RevUser(rev) == IF rev.user = NoUser THEN UserHidden ELSE rev.user

\* ------------------------------------------------------------------------
\* _parse_diff, one row at a time.  st is the Intermediate being updated
\* (blocks, hash_lookup) with the locals of _parse_diff; st.raised is set
\* when the row raises, with the changes made before the raise kept.
\* revisions is the pair <<last_rev, curr_rev>>.
\* ------------------------------------------------------------------------

\* st.raised when no row has raised
NoException == "none"

\* raise Exception("block has unknown behavior")
UnknownBehavior == "block has unknown behavior"

Raise(st, exception) == [st EXCEPT !.raised = exception]

\* the hash whose reply_chain a comment's chain is copied from (None: no
\* reply target): last_hash after an added or modified row, else the value
\* of compute_reply_hash
reply_source(st, blocks, block_depth) ==
    IF st.last_block_was_ingested
    THEN st.last_hash
    ELSE compute_reply_hash(blocks, st.last_hash, st.last_depth, block_depth)

\* this_depth > None raises TypeError
reply_depth_raises(st, block_depth) ==
    /\ ~st.last_block_was_ingested
    /\ block_depth # 0
    /\ st.last_depth = NoneDepth

\* accum.blocks[...] raises KeyError when the source is not stored
reply_chain_raises(st, blocks, block_depth) ==
    \/ reply_depth_raises(st, block_depth)
    \/ /\ reply_source(st, blocks, block_depth) # None
       /\ reply_source(st, blocks, block_depth) \notin DOMAIN blocks

reply_chain_exception(st, blocks, block_depth) ==
    IF reply_depth_raises(st, block_depth) THEN "TypeError" ELSE "KeyError"

\* the reply_chain of the block hashed h
compute_reply_chain(st, blocks, h, block_depth) ==
    IF reply_source(st, blocks, block_depth) # None
    THEN Append(blocks[reply_source(st, blocks, block_depth)].reply_chain, h)
    ELSE <<h>>

\* accum.blocks[last_hash].is_followed = True
mark_followed(st, blocks) ==
    IF st.last_block_was_ingested
    THEN [blocks EXCEPT ![st.last_hash].is_followed = TRUE]
    ELSE blocks

unedited_tr(st, revisions, all_td) ==
    LET unedited_text == all_td[2].text
        hashed_text   == compute_md5(unedited_text)
        is_section    == is_new_section_text(unedited_text)
    IN
    IF all_td[2].text # all_td[4].text THEN Raise(st, "AssertionError")
    ELSE IF Len(Strip(unedited_text, {" "})) = 0 THEN st
    ELSE IF compute_text_depth_raises(unedited_text) THEN Raise(st, "IndexError")
    ELSE
      LET block_depth == compute_text_depth(unedited_text)
          st1 == [st EXCEPT !.block_depth = block_depth]
      IN
      IF hashed_text \notin DOMAIN st.blocks
      THEN
        LET block == [NewBlock EXCEPT
                        !.root_hash    = IF is_section THEN hashed_text ELSE Absent,
                        !.text         = unedited_text,
                        !.timestamp    = revisions[1].timestamp,
                        !.user         = NoUser,
                        !.ingested     = FALSE,
                        !.revision_ids = <<Unknown>>,
                        !.reply_chain  = <<hashed_text>>]
        IN [st1 EXCEPT
              !.curr_section_hash = IF is_section THEN hashed_text ELSE @,
              !.blocks            = Put(st.blocks, hashed_text, block),
              !.hash_lookup       = Put(st.hash_lookup, hashed_text, hashed_text),
              !.last_hash         = hashed_text,
              !.last_depth        = block_depth,
              !.last_block_was_ingested = FALSE]
      ELSE
        \* .root_hash of a block that never got one raises AttributeError
        IF st.blocks[hashed_text].root_hash = Absent THEN Raise(st1, "AttributeError")
        ELSE [st1 EXCEPT
                !.curr_section_hash = st.blocks[hashed_text].root_hash,
                !.last_hash         = hashed_text,
                !.last_depth        = block_depth,
                !.last_block_was_ingested = FALSE]

\* moved_right_tr whose block for an unseen paired text counts as ingested
moved_right_tr_ingested(st, revisions, all_td) ==
    LET added_text  == all_td[3].text
        hashed_text == compute_md5(added_text)
        old_hash    == compute_md5(all_td[2].anchor)
        st1         == [st EXCEPT !.behavior = Append(@, "move")]
        seen        == old_hash \in DOMAIN st.blocks
        block ==
            IF seen
            THEN [st.blocks[old_hash] EXCEPT
                    !.text = IF old_hash # hashed_text THEN added_text ELSE @,
                    !.user = IF old_hash # hashed_text THEN RevUser(revisions[2]) ELSE @,
                    !.timestamp    = revisions[2].timestamp,
                    !.revision_ids = Append(@, revisions[2].revid),
                    !.root_hash    = st.curr_section_hash]
            ELSE [NewBlock EXCEPT
                    !.text         = added_text,
                    !.timestamp    = revisions[2].timestamp,
                    !.user         = RevUser(revisions[2]),
                    !.ingested     = TRUE,
                    !.revision_ids = <<Unknown, revisions[2].revid>>,
                    !.reply_chain  = <<hashed_text>>,
                    !.root_hash    = st.curr_section_hash]
        blocks1 == IF seen THEN Del(st.blocks, old_hash) ELSE st.blocks
        lookup1 == IF seen THEN Put(st.hash_lookup, old_hash, hashed_text)
                   ELSE st.hash_lookup
    IN [st1 EXCEPT
          !.blocks      = Put(blocks1, hashed_text, block),
          !.hash_lookup = Put(lookup1, hashed_text, hashed_text),
          !.last_hash   = hashed_text,
          !.last_depth  = st.block_depth,
          !.last_block_was_ingested = TRUE]

\* moved_right_tr without "block.root_hash = curr_section_hash" for a stored block
moved_right_tr_keeps_root(st, revisions, all_td) ==
    LET added_text  == all_td[3].text
        hashed_text == compute_md5(added_text)
        old_hash    == compute_md5(all_td[2].anchor)
        st1         == [st EXCEPT !.behavior = Append(@, "move")]
        seen        == old_hash \in DOMAIN st.blocks
        block ==
            IF seen
            THEN [st.blocks[old_hash] EXCEPT
                    !.text = IF old_hash # hashed_text THEN added_text ELSE @,
                    !.user = IF old_hash # hashed_text THEN RevUser(revisions[2]) ELSE @,
                    !.timestamp    = revisions[2].timestamp,
                    !.revision_ids = Append(@, revisions[2].revid)]
            ELSE [NewBlock EXCEPT
                    !.text         = added_text,
                    !.timestamp    = revisions[2].timestamp,
                    !.user         = RevUser(revisions[2]),
                    !.ingested     = FALSE,
                    !.revision_ids = <<Unknown, revisions[2].revid>>,
                    !.reply_chain  = <<hashed_text>>,
                    !.root_hash    = st.curr_section_hash]
        blocks1 == IF seen THEN Del(st.blocks, old_hash) ELSE st.blocks
        lookup1 == IF seen THEN Put(st.hash_lookup, old_hash, hashed_text)
                   ELSE st.hash_lookup
    IN [st1 EXCEPT
          !.blocks      = Put(blocks1, hashed_text, block),
          !.hash_lookup = Put(lookup1, hashed_text, hashed_text),
          !.last_hash   = hashed_text,
          !.last_depth  = st.block_depth,
          !.last_block_was_ingested = TRUE]

\* the moved-right branch of a new-content row
moved_right_tr(st, revisions, all_td) ==
    LET added_text  == all_td[3].text
        hashed_text == compute_md5(added_text)
        old_hash    == compute_md5(all_td[2].anchor)
        st1         == [st EXCEPT !.behavior = Append(@, "move")]
        seen        == old_hash \in DOMAIN st.blocks
        block ==
            IF seen
            THEN [st.blocks[old_hash] EXCEPT
                    !.text = IF old_hash # hashed_text THEN added_text ELSE @,
                    !.user = IF old_hash # hashed_text THEN RevUser(revisions[2]) ELSE @,
                    !.timestamp    = revisions[2].timestamp,
                    !.revision_ids = Append(@, revisions[2].revid),
                    !.root_hash    = st.curr_section_hash]
            ELSE [NewBlock EXCEPT
                    !.text         = added_text,
                    !.timestamp    = revisions[2].timestamp,
                    !.user         = RevUser(revisions[2]),
                    !.ingested     = FALSE,
                    !.revision_ids = <<Unknown, revisions[2].revid>>,
                    !.reply_chain  = <<hashed_text>>,
                    !.root_hash    = st.curr_section_hash]
        blocks1 == IF seen THEN Del(st.blocks, old_hash) ELSE st.blocks
        lookup1 == IF seen THEN Put(st.hash_lookup, old_hash, hashed_text)
                   ELSE st.hash_lookup
    IN [st1 EXCEPT
          !.blocks      = Put(blocks1, hashed_text, block),
          !.hash_lookup = Put(lookup1, hashed_text, hashed_text),
          !.last_hash   = hashed_text,
          !.last_depth  = st.block_depth,
          !.last_block_was_ingested = TRUE]

\* the regular branch of a new-content row: a truly new block
added_tr(st, revisions, all_td) ==
    LET added_text  == all_td[3].text
        hashed_text == compute_md5(added_text)
        block0 == [NewBlock EXCEPT
                     !.text         = added_text,
                     !.timestamp    = revisions[2].timestamp,
                     !.user         = RevUser(revisions[2]),
                     !.ingested     = TRUE,
                     !.revision_ids = <<revisions[2].revid>>]
    IN
    IF is_new_section_text(added_text)
    THEN
      LET block == [block0 EXCEPT
                      !.reply_chain = <<hashed_text>>,
                      !.is_header   = PyTrue,
                      !.root_hash   = hashed_text]
      IN [st EXCEPT
            !.behavior          = Append(@, "create_section"),
            !.curr_section_hash = hashed_text,
            !.blocks            = Put(st.blocks, hashed_text, block),
            !.hash_lookup       = Put(st.hash_lookup, hashed_text, hashed_text),
            !.last_hash         = hashed_text,
            !.last_depth        = st.block_depth,
            !.last_block_was_ingested = TRUE]
    ELSE
      LET st1 == [st EXCEPT !.behavior = Append(@, "add_comment")] IN
      IF compute_text_depth_raises(added_text) THEN Raise(st1, "IndexError")
      ELSE
        LET block_depth == compute_text_depth(added_text)
            st2 == [st1 EXCEPT !.block_depth = block_depth]
        IN
        IF reply_chain_raises(st, st.blocks, block_depth)
        THEN Raise(st2, reply_chain_exception(st, st.blocks, block_depth))
        ELSE
          LET block == [block0 EXCEPT
                          !.reply_chain = compute_reply_chain(st, st.blocks, hashed_text, block_depth),
                          !.is_header   = PyFalse,
                          !.root_hash   = st.curr_section_hash]
          IN [st2 EXCEPT
                !.blocks      = Put(mark_followed(st, st.blocks), hashed_text, block),
                !.hash_lookup = Put(st.hash_lookup, hashed_text, hashed_text),
                !.last_hash   = hashed_text,
                !.last_depth  = block_depth,
                !.last_block_was_ingested = TRUE]

new_content_tr(st, revisions, all_td) ==
    IF Len(Strip(all_td[3].text, {" "})) = 0 THEN st
    ELSE IF is_moved_right_tr(all_td) THEN moved_right_tr(st, revisions, all_td)
    ELSE added_tr(st, revisions, all_td)

\* removal_tr without the "except KeyError: pass"
removal_tr_raises_on_missing(st, revisions, all_td) ==
    LET removed_text   == all_td[2].text
        hashed_removal == compute_md5(removed_text)
    IN
    IF Len(removed_text) = 0 THEN st
    ELSE IF is_moved_left_tr(all_td)
    THEN [st EXCEPT !.behavior = Append(@, "removal")]
    ELSE IF hashed_removal \notin DOMAIN st.hash_lookup
    THEN Raise(st, "KeyError")
    ELSE [st EXCEPT
            !.hash_lookup = Del(@, hashed_removal),
            !.blocks = IF hashed_removal \in DOMAIN @ THEN Del(@, hashed_removal) ELSE @]

\* removal_tr with "del accum.blocks[hashed_removal]" left out
removal_tr_keeps_block(st, revisions, all_td) ==
    LET removed_text   == all_td[2].text
        hashed_removal == compute_md5(removed_text)
    IN
    IF Len(removed_text) = 0 THEN st
    ELSE IF is_moved_left_tr(all_td)
    THEN [st EXCEPT !.behavior = Append(@, "removal")]
    ELSE IF hashed_removal \notin DOMAIN st.hash_lookup
    THEN st
    ELSE [st EXCEPT !.hash_lookup = Del(@, hashed_removal)]

removal_tr(st, revisions, all_td) ==
    LET removed_text   == all_td[2].text
        hashed_removal == compute_md5(removed_text)
    IN
    IF Len(removed_text) = 0 THEN st
    ELSE IF is_moved_left_tr(all_td)
    THEN [st EXCEPT !.behavior = Append(@, "removal")]
    ELSE IF hashed_removal \notin DOMAIN st.hash_lookup
    THEN st   \* del accum.hash_lookup[...] raises KeyError: pass
    ELSE [st EXCEPT
            !.hash_lookup = Del(@, hashed_removal),
            !.blocks = IF hashed_removal \in DOMAIN @ THEN Del(@, hashed_removal) ELSE @]

\* modified_block with "block.text = new_text" left out
modified_block_keeps_text(block, revisions, new_text) ==
    [block EXCEPT
       !.timestamp    = revisions[2].timestamp,
       !.user         = RevUser(revisions[2]),
       !.revision_ids = Append(@, revisions[2].revid),
       !.ingested     = TRUE]

\* the block popped by a modification row, with its fields updated
modified_block(block, revisions, new_text) ==
    [block EXCEPT
       !.text         = new_text,
       !.timestamp    = revisions[2].timestamp,
       !.user         = RevUser(revisions[2]),
       !.revision_ids = Append(@, revisions[2].revid),
       !.ingested     = TRUE]

\* rekey_lookup that sets hash_lookup[new_hash] only for a new key
rekey_lookup_no_self(hash_lookup, old_hash, new_hash) ==
    IF new_hash \in DOMAIN hash_lookup
    THEN Put(hash_lookup, old_hash, new_hash)
    ELSE Put(Put(hash_lookup, new_hash, new_hash), old_hash, new_hash)

\* hash_lookup[new_hash] = new_hash; hash_lookup[old_hash] = new_hash
rekey_lookup(hash_lookup, old_hash, new_hash) ==
    Put(Put(hash_lookup, new_hash, new_hash), old_hash, new_hash)

\* the branch of a modification row whose old text is a stored block
modify_seen_tr(st, revisions, all_td) ==
    LET old_hash == compute_md5(all_td[2].text)
        new_text == all_td[4].text
        new_hash == compute_md5(new_text)
        block == modified_block(st.blocks[old_hash], revisions, new_text)
        blocks1 == Put(Del(st.blocks, old_hash), new_hash, block)
        lookup1 == rekey_lookup(st.hash_lookup, old_hash, new_hash)
        st1 == [st EXCEPT !.blocks = blocks1, !.hash_lookup = lookup1]
    IN
    IF old_hash \notin DOMAIN st.hash_lookup THEN Raise(st, "AssertionError")
    ELSE IF compute_text_depth_raises(new_text) THEN Raise(st1, "IndexError")
    ELSE
      LET block_depth == compute_text_depth(new_text)
          st2 == [st1 EXCEPT !.block_depth = block_depth]
      IN
      IF reply_chain_raises(st, blocks1, block_depth)
      THEN Raise(st2, reply_chain_exception(st, blocks1, block_depth))
      ELSE
        LET chain   == compute_reply_chain(st, blocks1, new_hash, block_depth)
            blocks2 == [blocks1 EXCEPT ![new_hash].reply_chain = chain]
        IN [st2 EXCEPT
              !.blocks     = mark_followed(st, blocks2),
              !.last_hash  = new_hash,
              !.last_depth = block_depth,
              !.last_block_was_ingested = TRUE]

\* the branch of a modification row whose old text is not stored
modify_unseen_tr(st, revisions, all_td) ==
    LET new_text == all_td[4].text
        new_hash == compute_md5(new_text)
        block == [NewBlock EXCEPT
                    !.text         = new_text,
                    !.timestamp    = revisions[2].timestamp,
                    !.user         = RevUser(revisions[2]),
                    !.ingested     = FALSE,
                    !.revision_ids = <<Unknown, revisions[2].revid>>,
                    !.reply_chain  = <<new_hash>>,
                    !.root_hash    = st.curr_section_hash]
        st1 == [st EXCEPT
                  !.blocks      = Put(@, new_hash, block),
                  !.hash_lookup = Put(@, new_hash, new_hash)]
    IN
    IF compute_text_depth_raises(new_text) THEN Raise(st1, "IndexError")
    ELSE [st1 EXCEPT
            !.last_hash  = new_hash,
            !.last_depth = compute_text_depth(new_text),
            !.last_block_was_ingested = TRUE]

modification_tr(st, revisions, all_td) ==
    LET st1 == [st EXCEPT !.behavior = Append(@, "modify")] IN
    IF compute_md5(all_td[2].text) \in DOMAIN st.blocks
    THEN modify_seen_tr(st1, revisions, all_td)
    ELSE modify_unseen_tr(st1, revisions, all_td)

\* the body of the loop over the rows of the diff
parse_row(st, revisions, all_td) ==
    IF is_unedited_tr(all_td) THEN unedited_tr(st, revisions, all_td)
    ELSE IF is_new_content_tr(all_td) THEN new_content_tr(st, revisions, all_td)
    ELSE IF is_removal_tr(all_td) THEN removal_tr(st, revisions, all_td)
    ELSE IF is_modification_tr(all_td) THEN modification_tr(st, revisions, all_td)
    ELSE IF ~is_line_number_tr(all_td) THEN Raise(st, UnknownBehavior)
    ELSE st

\* the locals of _parse_diff before the first row
start_diff(blocks, hash_lookup) ==
    [ blocks            |-> blocks,
      hash_lookup       |-> hash_lookup,
      block_depth       |-> NoneDepth,
      last_hash         |-> None,
      last_depth        |-> -1,
      last_block_was_ingested |-> FALSE,
      curr_section_hash |-> None,
      behavior          |-> <<>>,
      raised            |-> NoException ]

\* log_entry that logs the id of revisions[0]
log_entry_last_rev(st, revisions) ==
    << revisions[1].revid,
       IF st.raised # NoException THEN <<"error">> ELSE st.behavior,
       revisions[2].timestamp >>

\* log_entry without "behavior = ['error']" in the except clause
log_entry_keeps_behavior(st, revisions) ==
    << revisions[2].revid, st.behavior, revisions[2].timestamp >>

\* the entry _parse_diff appends to accum.revisions
log_entry(st, revisions) ==
    << revisions[2].revid,
       IF st.raised # NoException THEN <<"error">> ELSE st.behavior,
       revisions[2].timestamp >>

\* the loop over the rows of a diff, up to the row that raises
RECURSIVE parse_rows(_, _, _)
parse_rows(st, revisions, rows) ==
    IF rows = <<>> \/ st.raised # NoException THEN st
    ELSE parse_rows(parse_row(st, revisions, Head(rows)), revisions, Tail(rows))

\* _parse_diff as a whole: the Intermediate it returns, as a record
parse_diff(revisions, rows, accum_in) ==
    LET st == parse_rows(start_diff(accum_in.blocks, accum_in.hash_lookup), revisions, rows) IN
    [ blocks      |-> st.blocks,
      hash_lookup |-> st.hash_lookup,
      revisions   |-> Append(accum_in.revisions, log_entry(st, revisions)) ]

\* ------------------------------------------------------------------------
\* Corpus assembly: convert_intermediate_to_corpus and
\* rough_convert_intermediate_to_corpus.  An utterance string (the hashes
\* of a segment joined by spaces) is the sequence of the hashes.
\* ------------------------------------------------------------------------

\* the result of segment_contiguous_blocks: the segments, or what it raised
Segmented(segments) == [raised |-> NoException, segments |-> segments]

SegmentRaises(exception) == [raised |-> exception, segments |-> <<>>]

\* the loop without the comparison of users: one segment for the chain
RECURSIVE segment_from_no_split(_, _, _, _, _, _, _)
segment_from_no_split(blocks, hash_lookup, reply_chain, k, res, contig, last_user) ==
    IF k > Len(reply_chain) THEN Segmented(Append(res, contig))
    ELSE
      LET this_h == find_ultimate_hash(hash_lookup, reply_chain[k]) IN
      IF this_h \notin DOMAIN blocks THEN SegmentRaises("KeyError")
      ELSE segment_from_no_split(blocks, hash_lookup, reply_chain, k + 1, res,
                                 Append(contig, this_h), last_user)

\* the loop of segment_contiguous_blocks from the k-th hash of the chain on
RECURSIVE segment_from(_, _, _, _, _, _, _)
segment_from(blocks, hash_lookup, reply_chain, k, res, contig, last_user) ==
    IF k > Len(reply_chain) THEN Segmented(Append(res, contig))
    ELSE
      LET this_h == find_ultimate_hash(hash_lookup, reply_chain[k]) IN
      IF this_h \notin DOMAIN blocks THEN SegmentRaises("KeyError")
      ELSE IF blocks[this_h].user = last_user
      THEN segment_from(blocks, hash_lookup, reply_chain, k + 1, res,
                        Append(contig, this_h), last_user)
      ELSE segment_from(blocks, hash_lookup, reply_chain, k + 1, Append(res, contig),
                        <<this_h>>, blocks[this_h].user)

\* Intermediate.segment_contiguous_blocks
segment_contiguous_blocks(blocks, hash_lookup, reply_chain) ==
    IF Len(reply_chain) = 0 THEN SegmentRaises("TypeError")
    ELSE
      LET last_h == find_ultimate_hash(hash_lookup, reply_chain[1]) IN
      IF last_h \in {KeyError, Loops} THEN SegmentRaises("KeyError")
      ELSE IF Len(reply_chain) = 1 THEN Segmented(<< <<last_h>> >>)
      ELSE IF last_h \notin DOMAIN blocks THEN SegmentRaises("KeyError")
      ELSE segment_from(blocks, hash_lookup, reply_chain, 2, <<>>, <<last_h>>,
                        blocks[last_h].user)

\* s[-1]
Last(s) == s[Len(s)]

\* the body of the try of the first loop for the block stored under
\* block_hash: the utterances it adds to complete_utterances, and whether
\* it reaches block_hashes_to_segments[block_hash] = segments.  The
\* segments before the last are added before block.is_header is read.
first_loop_body(blocks, hash_lookup, block_hash) ==
    LET block == blocks[block_hash]
        seg   == segment_contiguous_blocks(blocks, hash_lookup, block.reply_chain)
        segments == seg.segments
        earlier  == {segments[k] : k \in 1..(Len(segments) - 1)}
    IN
    IF seg.raised # NoException THEN [added |-> {}, done |-> FALSE]
    ELSE IF block_hash # Last(Last(segments)) THEN [added |-> {}, done |-> FALSE]
    ELSE IF block.is_header = Absent THEN [added |-> earlier, done |-> FALSE]
    ELSE IF block.is_header = PyTrue \/ ~blocks[Last(Last(segments))].is_followed
    THEN [added |-> earlier \cup {Last(segments)}, done |-> TRUE]
    ELSE [added |-> earlier, done |-> TRUE]

\* complete_utterances after the first loop
complete_utterances(blocks, hash_lookup) ==
    UNION {first_loop_body(blocks, hash_lookup, h).added : h \in DOMAIN blocks}

\* the keys of block_hashes_to_segments after the first loop
segmented_hashes(blocks, hash_lookup) ==
    {h \in DOMAIN blocks : first_loop_body(blocks, hash_lookup, h).done}

\* _find_reply_to_from_segment
find_reply_to_from_segment(segment) ==
    IF Len(segment) = 1 THEN None ELSE segment[Len(segment) - 1][1]

\* "\n".join(texts)
RECURSIVE JoinLines(_)
JoinLines(texts) ==
    IF texts = <<>> THEN <<>>
    ELSE IF Len(texts) = 1 THEN texts[1]
    ELSE texts[1] \o <<"\n">> \o JoinLines(Tail(texts))

\* what the body of the second loop raises for the utterance utt
utterance_raises(blocks, hash_lookup, utt) ==
    IF utt[1] \notin segmented_hashes(blocks, hash_lookup) THEN "KeyError"
    ELSE IF blocks[utt[1]].root_hash = Absent THEN "AttributeError"
    ELSE IF find_ultimate_hash(hash_lookup, blocks[utt[1]].root_hash) \in {KeyError, Loops}
    THEN "KeyError"
    ELSE IF \E k \in 1..Len(utt) : utt[k] \notin DOMAIN blocks THEN "KeyError"
    ELSE NoException

\* the Utterance of the second loop; reply_to is None in rough mode
Utterance(blocks, hash_lookup, utt, rough) ==
    LET first_block == blocks[utt[1]] IN
    [ id        |-> utt[1],
      user      |-> first_block.user,
      root      |-> find_ultimate_hash(hash_lookup, first_block.root_hash),
      reply_to  |-> IF rough THEN None
                    ELSE find_reply_to_from_segment(
                           segment_contiguous_blocks(blocks, hash_lookup,
                                                     first_block.reply_chain).segments),
      timestamp |-> first_block.timestamp,
      text      |-> JoinLines([k \in 1..Len(utt) |-> blocks[utt[k]].text]) ]

\* the exceptions the second loop can end with (none: it completes)
second_loop_raises(blocks, hash_lookup) ==
    {utterance_raises(blocks, hash_lookup, utt) :
        utt \in complete_utterances(blocks, hash_lookup)} \ {NoException}

\* convert_intermediate_to_corpus: the utterances of the corpus, none when
\* the second loop raises
convert_intermediate_to_corpus(blocks, hash_lookup) ==
    IF second_loop_raises(blocks, hash_lookup) # {} THEN {}
    ELSE {Utterance(blocks, hash_lookup, utt, FALSE) :
            utt \in complete_utterances(blocks, hash_lookup)}

\* rough_convert_intermediate_to_corpus.  Its two first loops are those of
\* convert_intermediate_to_corpus, with reply_to = None; an exception of the
\* second loop is not caught.
rough_convert_raises(blocks, hash_lookup) ==
    second_loop_raises(blocks, hash_lookup)

\* children_of_root[root]
children_of_root(blocks, hash_lookup, root) ==
    {u \in {Utterance(blocks, hash_lookup, utt, TRUE) :
              utt \in complete_utterances(blocks, hash_lookup)} : u.root = root}

\* the ids of the utterances of the rough corpus: a group is skipped when
\* its root is None or when no utterance of the group has the root as id;
\* of the utterances of a group that share an id one is kept
rough_utterance_ids(blocks, hash_lookup) ==
    IF rough_convert_raises(blocks, hash_lookup) # {} THEN {}
    ELSE
      LET roots == {Utterance(blocks, hash_lookup, utt, TRUE).root :
                      utt \in complete_utterances(blocks, hash_lookup)}
          kept  == {root \in roots \ {None} :
                      \E u \in children_of_root(blocks, hash_lookup, root) : u.id = root}
      IN UNION {{u.id : u \in children_of_root(blocks, hash_lookup, root)} : root \in kept}

\* the lists utt_list.sort(key=timestamp) can leave: the utterances in
\* non-decreasing timestamp order; those of one timestamp keep the order in
\* which the set complete_utterances was iterated, which is any order
sorted_utt_lists(utts) ==
    {l \in [1..Cardinality(utts) -> utts] :
        /\ \A a, b \in 1..Cardinality(utts) : a # b => l[a] # l[b]
        /\ \A a, b \in 1..Cardinality(utts) : a < b => l[a].timestamp <= l[b].timestamp}

\* the index the while loop stops at: the first utterance whose id is root
ind_of_root(utt_list, root) ==
    CHOOSE k \in 1..Len(utt_list) :
      /\ utt_list[k].id = root
      /\ \A m \in 1..(k - 1) : utt_list[m].id # root

\* the list left as it was sorted (the header is not moved)
header_not_moved(utt_list, k) == utt_list

\* utt_list.insert(0, utt_list.pop(ind_of_root))
header_first(utt_list, k) ==
    <<utt_list[k]>> \o SubSeq(utt_list, 1, k - 1) \o SubSeq(utt_list, k + 1, Len(utt_list))

\* the loop over j: an utterance whose id was not added yet replies to the
\* utterance emitted last, utt_list[i] (1-based here), and is emitted
RECURSIVE link_utterances(_, _, _, _, _)
link_utterances(utt_list, i, j, added, utterances) ==
    IF j > Len(utt_list) THEN utterances
    ELSE IF utt_list[j].id \notin added
    THEN link_utterances(utt_list, j, j + 1, added \cup {utt_list[j].id},
                         Append(utterances, [utt_list[j] EXCEPT !.reply_to = utt_list[i].id]))
    ELSE link_utterances(utt_list, i, j + 1, added, utterances)

\* the utterances one group emits, in order, for the sorted list utt_list
emit_group(utt_list, root) ==
    LET l == header_first(utt_list, ind_of_root(utt_list, root)) IN
    link_utterances(l, 1, 2, {l[1].id}, <<l[1]>>)

\* the roots whose group is emitted by the rough assembly
rough_roots(blocks, hash_lookup) ==
    IF rough_convert_raises(blocks, hash_lookup) # {} THEN {}
    ELSE {root \in {Utterance(blocks, hash_lookup, utt, TRUE).root :
                      utt \in complete_utterances(blocks, hash_lookup)} \ {None} :
            \E u \in children_of_root(blocks, hash_lookup, root) : u.id = root}

\* the sequences of utterances the group of root can emit
rough_group(blocks, hash_lookup, root) ==
    {emit_group(l, root) : l \in sorted_utt_lists(children_of_root(blocks, hash_lookup, root))}

\* ------------------------------------------------------------------------
\* The wiki: the page's revisions as the API lists them (rvdir=newer), and
\* the rows a diff may hold
\* ------------------------------------------------------------------------

Revision(revid, timestamp, user) == [revid |-> revid, timestamp |-> timestamp, user |-> user]

\* the third revision's user is hidden: its record has no "user" key
SourceRevisions ==
    << Revision(11, 100, "alice"), Revision(12, 200, "alice"),
       Revision(15, 300, NoUser) >>

\* the texts the rows of each kind are drawn from
UneditedTexts == {T_head, T_a, T_b, T_blank, T_nl}

AddedTexts == {T_head, T_a, T_b, T_colon, T_blank}

\* <<added text, paired left-side text>>
MovedPairs == {<<T_a, T_a>>, <<T_b, T_a>>, <<T_a_sp, T_b>>, <<T_a, T_head>>}

RemovedTexts == {T_head, T_a, T_b, T_empty}

MovedLeftTexts == {T_a}

\* <<old text, new text>>
ModifiedPairs ==
    {T_head, T_a, T_b} \X {T_a, T_a_sp, T_b, T_empty}

Rows ==
    {UneditedRow(t) : t \in UneditedTexts}
    \cup {NewContentRow(t) : t \in AddedTexts}
    \cup {MovedRightRow(p[1], p[2]) : p \in MovedPairs}
    \cup {RemovalRow(t) : t \in RemovedTexts}
    \cup {MovedLeftRow(t) : t \in MovedLeftTexts}
    \cup {ModificationRow(p[1], p[2]) : p \in ModifiedPairs}
    \cup {LineNumberRow, UnknownRow}

\* ------------------------------------------------------------------------
\* State
\* ------------------------------------------------------------------------

VARIABLES
    blocks,            \* accum.blocks
    hash_lookup,       \* accum.hash_lookup
    revisions,         \* accum.revisions, the revision log
    pc,                \* "idle", "loop" (at the while of the driver), "rows" (in _parse_diff),
                       \* "twice" (after a second _parse_diff), "crashed" (uncaught exception)
    run,               \* the request served last: "none", "scratch", "update", "resume",
                       \* GetWrite or GetNoWrite
    exc,               \* the exception logged for the revision applied last
    pbar,              \* the progress bar: pairs applied by this request
    disk,              \* the file of the persisted Intermediate: "absent" or "empty"
    diffs,             \* the rows of the diffs fetched since the Intermediate was created
    hi,                \* index in SourceRevisions of the last revision listed
    i,                 \* the driver's i: SourceRevisions[i] is last_rev
    nrows,             \* rows applied since the Intermediate was created
    tr,                \* the row of the diff applied last (NoRow before the first)
    block_depth, last_hash, last_depth, last_block_was_ingested,
    curr_section_hash, behavior      \* locals of _parse_diff

accum == <<blocks, hash_lookup, revisions>>

locals == <<tr, block_depth, last_hash, last_depth, last_block_was_ingested,
            curr_section_hash, behavior>>

vars == <<blocks, hash_lookup, revisions, pc, run, exc, pbar, disk, diffs, hi, i, nrows, tr, block_depth, last_hash,
          last_depth, last_block_was_ingested, curr_section_hash, behavior>>

\* the Intermediate and the locals of _parse_diff as one record
CurrentSt ==
    [ blocks            |-> blocks,
      hash_lookup       |-> hash_lookup,
      block_depth       |-> block_depth,
      last_hash         |-> last_hash,
      last_depth        |-> last_depth,
      last_block_was_ingested |-> last_block_was_ingested,
      curr_section_hash |-> curr_section_hash,
      behavior          |-> behavior,
      raised            |-> NoException ]

SetLocals(st) ==
    /\ block_depth' = st.block_depth
    /\ last_hash' = st.last_hash
    /\ last_depth' = st.last_depth
    /\ last_block_was_ingested' = st.last_block_was_ingested
    /\ curr_section_hash' = st.curr_section_hash
    /\ behavior' = st.behavior

\* Intermediate(): an empty store; no request is running
Init ==
    /\ blocks = EmptyDict
    /\ hash_lookup = EmptyDict
    /\ revisions = <<>>
    /\ pc = "idle"
    /\ run = "none"
    /\ exc = NoException
    /\ pbar = 0
    /\ disk = "absent"
    /\ diffs = <<>>
    /\ hi = 1
    /\ i = 1
    /\ nrows = 0
    /\ tr = NoRow
    /\ block_depth = NoneDepth
    /\ last_hash = None
    /\ last_depth = -1
    /\ last_block_was_ingested = FALSE
    /\ curr_section_hash = None
    /\ behavior = <<>>

\* index in SourceRevisions of the revision with this id
IndexOfRevid(revid) == CHOOSE k \in 1..Len(SourceRevisions) : SourceRevisions[k].revid = revid

\* Intermediate.get_last_revision_id
get_last_revision_id == revisions[Len(revisions)][1]

\* generate_intermediate_from_scratch up to the loop of
\* _process_revisions_since_revid: a new Intermediate, and the listing from
\* the page's first revision to the newest one the wiki has at that time
GenerateFromScratch ==
    /\ pc = "idle"
    /\ \E n \in hi..Len(SourceRevisions) : hi' = n
    /\ blocks' = EmptyDict
    /\ hash_lookup' = EmptyDict
    /\ revisions' = <<>>
    /\ i' = 1
    /\ pc' = "loop"
    /\ run' = "scratch"
    /\ pbar' = 0
    /\ exc' = NoException
    /\ nrows' = 0
    /\ diffs' = <<>>
    /\ UNCHANGED <<disk, locals>>

\* update_intermediate up to the loop: the listing starts at the last
\* logged revision (rvstartid)
UpdateIntermediate ==
    /\ pc = "idle"
    /\ revisions # <<>>
    /\ i' = IndexOfRevid(get_last_revision_id)
    /\ \E n \in hi..Len(SourceRevisions) : hi' = n
    /\ pc' = "loop"
    /\ run' = "update"
    /\ pbar' = 0
    /\ UNCHANGED <<accum, exc, disk, diffs, nrows, locals>>

\* while i < len(revisions): fetch the diff and enter _parse_diff
EnterParseDiff ==
    /\ pc = "loop"
    /\ i < hi
    /\ pc' = "rows"
    /\ exc' = NoException
    /\ tr' = NoRow
    /\ SetLocals(start_diff(blocks, hash_lookup))
    /\ UNCHANGED <<accum, run, pbar, disk, hi, i, nrows>>

NextPair == EnterParseDiff /\ UNCHANGED diffs

\* the loop ends: _process_revisions_since_revid returns
Return ==
    /\ pc = "loop"
    /\ i >= hi
    /\ pc' = "idle"
    /\ UNCHANGED <<accum, run, exc, pbar, disk, diffs, hi, i, nrows, locals>>

\* _parse_diff leaves: the log entry is appended and the driver moves on
Leave(st) ==
    /\ revisions' = Append(revisions, log_entry(st, <<SourceRevisions[i], SourceRevisions[i + 1]>>))
    /\ i' = i + 1
    /\ pbar' = pbar + 1
    /\ pc' = "loop"
    /\ exc' = st.raised
    /\ tr' = NoRow
    /\ SetLocals(start_diff(blocks, hash_lookup))

\* one iteration of the loop over the rows; a row that raises ends the diff
ParseRowWithin(all_td, budget) ==
    /\ pc = "rows"
    /\ nrows < budget
    /\ LET st == parse_row(CurrentSt, <<SourceRevisions[i], SourceRevisions[i + 1]>>, all_td) IN
         /\ blocks' = st.blocks
         /\ hash_lookup' = st.hash_lookup
         /\ IF st.raised # NoException
            THEN Leave(st)
            ELSE /\ SetLocals(st)
                 /\ tr' = all_td
                 /\ UNCHANGED <<revisions, pc, exc, pbar, i>>
    /\ nrows' = nrows + 1
    /\ UNCHANGED <<run, disk, hi>>

ParseRowOf(all_td) == ParseRowWithin(all_td, MaxRows)

ParseRow == \E all_td \in Rows : ParseRowOf(all_td) /\ UNCHANGED diffs

\* the diff has no more rows
EndDiff ==
    /\ pc = "rows"
    /\ Leave(CurrentSt)
    /\ UNCHANGED <<blocks, hash_lookup, run, disk, diffs, hi, nrows>>

Next ==
    \/ GenerateFromScratch
    \/ UpdateIntermediate
    \/ NextPair
    \/ Return
    \/ ParseRow
    \/ EndDiff

Spec == Init /\ [][Next]_vars

\* ------------------------------------------------------------------------
\* The same driver for a page whose diffs hold the rows of one thread: a
\* heading, two comments, an edit of the first comment and a removal
\* ------------------------------------------------------------------------

ThreadRows ==
    { NewContentRow(T_head), NewContentRow(T_a), NewContentRow(T_b),
      UneditedRow(T_head), ModificationRow(T_a, T_a_sp), RemovalRow(T_b) }

ParseThreadRow ==
    \E all_td \in ThreadRows : ParseRowWithin(all_td, MaxThreadRows) /\ UNCHANGED diffs

ThreadNext ==
    \/ GenerateFromScratch
    \/ UpdateIntermediate
    \/ NextPair
    \/ Return
    \/ ParseThreadRow
    \/ EndDiff

SpecThread == Init /\ [][ThreadNext]_vars

\* ------------------------------------------------------------------------
\* The same driver with the fetched diffs kept, a second call of _parse_diff
\* on the pair applied last, and the Intermediate written to and read from
\* disk
\* ------------------------------------------------------------------------

NextPairRecorded == EnterParseDiff /\ diffs' = Append(diffs, <<>>)

ParseRowRecorded ==
    \E all_td \in Rows :
      /\ ParseRowOf(all_td)
      /\ diffs' = [diffs EXCEPT ![Len(diffs)] = Append(@, all_td)]

\* _parse_diff called again with the pair and the diff it was just called with
ParseDiffAgain ==
    /\ pc = "loop"
    /\ diffs # <<>>
    /\ exc = NoException
    /\ LET res == parse_diff(<<SourceRevisions[i - 1], SourceRevisions[i]>>, diffs[Len(diffs)],
                             [blocks |-> blocks, hash_lookup |-> hash_lookup,
                              revisions |-> revisions])
       IN /\ blocks' = res.blocks
          /\ hash_lookup' = res.hash_lookup
          /\ revisions' = res.revisions
    /\ pc' = "twice"
    /\ UNCHANGED <<run, exc, pbar, disk, diffs, hi, i, nrows, locals>>

\* Intermediate.write_to_disk: open(..., "w") creates or empties the file,
\* then json.dump(obj), called without the file, raises TypeError
WriteToDisk ==
    /\ pc = "idle"
    /\ run # "none"
    /\ disk' = "empty"
    /\ UNCHANGED <<accum, pc, run, exc, pbar, diffs, hi, i, nrows, locals>>

\* Intermediate(filepath) in a new process: open raises FileNotFoundError
\* when there is no file, json.load raises JSONDecodeError on the empty
\* file; write_to_disk leaves no other file
LoadFromDisk ==
    /\ pc = "idle"
    /\ run' = "resume"
    /\ exc' = IF disk = "absent" THEN "FileNotFoundError" ELSE "JSONDecodeError"
    /\ pc' = "crashed"
    /\ UNCHANGED <<accum, pbar, disk, diffs, hi, i, nrows, locals>>

ReplayNext ==
    \/ GenerateFromScratch
    \/ NextPairRecorded
    \/ Return
    \/ ParseRowRecorded
    \/ EndDiff
    \/ ParseDiffAgain
    \/ WriteToDisk
    \/ LoadFromDisk

SpecReplay == Init /\ [][ReplayNext]_vars

\* ------------------------------------------------------------------------
\* get_intermediate: the cached Intermediate of the title, or a new one
\* ------------------------------------------------------------------------

\* run while get_intermediate(write_intermediate_to_disk = True) is served
GetWrite == "get_intermediate, write"

\* run while get_intermediate(write_intermediate_to_disk = False) is served
GetNoWrite == "get_intermediate, no write"

\* get_intermediate up to the loop of the driver.  Without a file and with
\* write_intermediate_to_disk the Intermediate is generated from scratch;
\* in every other case Intermediate(filepath) is loaded: open raises
\* FileNotFoundError without a file, json.load raises JSONDecodeError on the
\* empty file write_to_disk leaves
GetIntermediateWith(write_intermediate_to_disk) ==
    /\ pc \in {"idle", "crashed"}
    /\ run' = IF write_intermediate_to_disk THEN GetWrite ELSE GetNoWrite
    /\ pbar' = 0
    /\ IF disk = "absent" /\ write_intermediate_to_disk
       THEN /\ \E n \in hi..Len(SourceRevisions) : hi' = n
            /\ blocks' = EmptyDict
            /\ hash_lookup' = EmptyDict
            /\ revisions' = <<>>
            /\ i' = 1
            /\ pc' = "loop"
            /\ exc' = NoException
            /\ nrows' = 0
            /\ diffs' = <<>>
       ELSE /\ exc' = IF disk = "absent" THEN "FileNotFoundError" ELSE "JSONDecodeError"
            /\ pc' = "crashed"
            /\ UNCHANGED <<accum, diffs, hi, i, nrows>>
    /\ UNCHANGED <<disk, locals>>

GetIntermediate ==
    \E write_intermediate_to_disk \in BOOLEAN :
      GetIntermediateWith(write_intermediate_to_disk)

\* the driver returns to get_intermediate, which was asked to write (only
\* then was the Intermediate generated): write_to_disk empties the file and
\* raises TypeError
ReturnAndWrite ==
    /\ pc = "loop"
    /\ i >= hi
    /\ run = GetWrite
    /\ disk' = "empty"
    /\ exc' = "TypeError"
    /\ pc' = "crashed"
    /\ UNCHANGED <<accum, run, pbar, diffs, hi, i, nrows, locals>>

CacheNext ==
    \/ GetIntermediate
    \/ NextPair
    \/ ParseRow
    \/ EndDiff
    \/ ReturnAndWrite

SpecCache == Init /\ [][CacheNext]_vars

\* ------------------------------------------------------------------------
\* Properties
\* ------------------------------------------------------------------------

\* no revision pair is being applied
AtBoundary == pc # "rows"

\* the behaviour tags logged so far
LoggedBehaviors == {revisions[k][2] : k \in 1..Len(revisions)}

\* C1: after any sequence of applied revision pairs, every key of the block
\* store is the md5 of the trimmed text of the block stored under it.
C1_KeysAreFingerprints ==
    AtBoundary => \A h \in DOMAIN blocks : compute_md5(blocks[h].text) = h

\* C1 witness: after a revision that ended tagged error, the store holds a
\* modified block whose text is not yet trimmed.
C1_Witness ==
    /\ pc = "idle"
    /\ <<"error">> \in LoggedBehaviors
    /\ \E h \in DOMAIN blocks :
         /\ blocks[h].text # h
         /\ Len(blocks[h].revision_ids) >= 2

\* C2: after any sequence of applied revision pairs, following hash_lookup
\* from any of its keys never runs into a cycle of length greater than one.
C2_NoAliasCycle ==
    AtBoundary =>
      \A h \in DOMAIN hash_lookup : find_ultimate_hash(hash_lookup, h) # Loops

\* C2 witness: a block was rekeyed twice by modification rows of one
\* revision and an older hash now resolves to it (the second new hash was
\* already a key of the alias map, or equals its old hash).
C2_Witness ==
    /\ pc = "idle"
    /\ \E k \in 1..Len(revisions) :
         Len(SelectSeq(revisions[k][2], LAMBDA tag : tag = "modify")) >= 2
    /\ \E h \in DOMAIN hash_lookup :
         /\ hash_lookup[h] # h
         /\ hash_lookup[h] \in DOMAIN blocks
         /\ Len(blocks[hash_lookup[h]].revision_ids) >= 3

C4_CanonicalSelfMapped ==
    AtBoundary =>
      \A h \in DOMAIN blocks : h \in DOMAIN hash_lookup /\ hash_lookup[h] = h

\* C4 witness: the store holds a rekeyed block, which an older hash
\* resolves to, next to another block.
C4_Witness ==
    /\ pc = "idle"
    /\ \E h \in DOMAIN hash_lookup :
         hash_lookup[h] # h /\ hash_lookup[h] \in DOMAIN blocks
    /\ Cardinality(DOMAIN blocks) >= 2

\* C5 (as claimed): after any sequence of applied revision pairs, the last
\* element of the reply_chain of every stored block is the block's own key.
C5_ChainEndsAtOwnKey ==
    AtBoundary =>
      \A h \in DOMAIN blocks :
        /\ blocks[h].reply_chain # <<>>
        /\ blocks[h].reply_chain[Len(blocks[h].reply_chain)] = h

\* C6 (as claimed): after every applied revision pair, every stored block
\* that is not a section heading has a root_hash that is a key of the store,
\* and the block stored there has is_header = true.
C6_RootIsStoredHeader ==
    AtBoundary =>
      \A h \in DOMAIN blocks :
        blocks[h].is_header # PyTrue =>
          /\ blocks[h].root_hash \in DOMAIN blocks
          /\ blocks[blocks[h].root_hash].is_header = PyTrue

\* C7: the revision ids of the log are strictly increasing, and the log
\* holds exactly one entry for each pair applied so far, carrying the id
\* of the pair's second revision, in a run from scratch and in a resumed one.
C7_LogFollowsSource ==
    /\ \A k \in 1..(Len(revisions) - 1) : revisions[k][1] < revisions[k + 1][1]
    /\ Len(revisions) = i - 1
    /\ \A k \in 1..Len(revisions) : revisions[k][1] = SourceRevisions[k + 1].revid
    /\ run = "scratch" => pbar = Len(revisions)

\* C7 witness: a resumed run has applied a pair and returned; the log holds
\* the entry of the earlier run and the one the resumed run appended.
C7_Witness ==
    /\ pc = "idle"
    /\ run = "update"
    /\ pbar >= 1
    /\ Len(revisions) >= 2

\* the step logs a revision whose diff held a row of no known shape
UnknownRowLogged ==
    /\ pc = "rows"
    /\ revisions' # revisions
    /\ exc' = UnknownBehavior

Accum == [blocks |-> blocks, hash_lookup |-> hash_lookup, revisions |-> revisions]

\* C9 (as claimed): calling _parse_diff a second time with the same pair
\* and diff, on the state its first successful call produced, leaves the
\* block store, the alias map and the revision log unchanged.
C9_SecondApplicationIsNoOp ==
    [][ (pc = "loop" /\ pc' = "twice") =>
          /\ blocks' = blocks
          /\ hash_lookup' = hash_lookup
          /\ revisions' = revisions ]_vars

\* the Intermediate a run from scratch builds from the diffs, pair by pair
RECURSIVE ScratchOver(_, _)
ScratchOver(ds, n) ==
    IF n = 0
    THEN [blocks |-> EmptyDict, hash_lookup |-> EmptyDict, revisions |-> <<>>]
    ELSE parse_diff(<<SourceRevisions[n], SourceRevisions[n + 1]>>, ds[n],
                    ScratchOver(ds, n - 1))

\* C10 (as claimed): a run over r0..rK that is persisted, reloaded and
\* resumed ends with the block store, alias map and revision log of a run
\* from scratch over the same diffs.
C10_ResumeEqualsScratch ==
    (/\ run = "resume"
     /\ pc \in {"idle", "crashed"}
     /\ disk # "absent"
     /\ revisions # <<>>
     /\ hi < Len(SourceRevisions)) =>
      /\ pc = "idle"
      /\ Accum = ScratchOver(diffs, Len(diffs))

\* the step is a call of get_intermediate
GetIntermediateCalled ==
    /\ pc \in {"idle", "crashed"}
    /\ run' \in {GetWrite, GetNoWrite}
    /\ pc' \in {"loop", "crashed"}

\* C11 (as claimed): without a persisted intermediate get_intermediate
\* starts the driver on a new store at the page's first revision, whatever
\* write_intermediate_to_disk is; with one it starts the driver at the last
\* id of the persisted revision log.
C11_StartsFromFirstOrLastLogged ==
    [][ GetIntermediateCalled =>
          IF disk = "absent"
          THEN /\ pc' = "loop"
               /\ i' = 1
               /\ blocks' = EmptyDict /\ hash_lookup' = EmptyDict /\ revisions' = <<>>
          ELSE /\ pc' = "loop"
               /\ revisions' # <<>>
               /\ SourceRevisions[i'].revid = revisions'[Len(revisions')][1] ]_vars

\* the removal rows that are not moved-left
PureRemovalRows == {r \in Rows : is_removal_tr(r) /\ ~is_moved_left_tr(r)}

\* the fingerprint of the text a removal row removes
RemovedHash(r) == compute_md5(r[2].text)

\* C12: a pure removal row whose fingerprint is a key neither of the block
\* store nor of the alias map changes neither of them nor the behaviour
\* tags, raises nothing, and leaves the applier in the loop over the rows
\* of the diff.
C12_UnknownRemovalIsNoOp ==
    [][ \A r \in PureRemovalRows :
          (/\ RemovedHash(r) \notin DOMAIN blocks
           /\ RemovedHash(r) \notin DOMAIN hash_lookup
           /\ ParseRowOf(r)) =>
            /\ blocks' = blocks
            /\ hash_lookup' = hash_lookup
            /\ behavior' = behavior
            /\ revisions' = revisions
            /\ exc' = NoException
            /\ pc' = "rows" ]_vars

\* C12 witness: the row applied last is a pure removal of a text that is
\* not stored, after an earlier row of the diff stored a block; the
\* applier is still in the loop over the rows.
C12_Witness ==
    /\ pc = "rows"
    /\ tr \in PureRemovalRows
    /\ Len(tr[2].text) > 0
    /\ RemovedHash(tr) \notin DOMAIN blocks \cup DOMAIN hash_lookup
    /\ blocks # EmptyDict
    /\ behavior # <<>>
    /\ nrows < MaxRows

\* C13 (as claimed): a pure removal row whose fingerprint h is a key of the
\* block store deletes blocks[h] and hash_lookup[h] and leaves every other
\* block and alias entry as it was.
C13_RemovalDeletesBlockAndAlias ==
    [][ \A r \in PureRemovalRows :
          (RemovedHash(r) \in DOMAIN blocks /\ ParseRowOf(r)) =>
            /\ DOMAIN blocks' = DOMAIN blocks \ {RemovedHash(r)}
            /\ DOMAIN hash_lookup' = DOMAIN hash_lookup \ {RemovedHash(r)}
            /\ \A h \in DOMAIN blocks' : blocks'[h] = blocks[h]
            /\ \A h \in DOMAIN hash_lookup' : hash_lookup'[h] = hash_lookup[h] ]_vars

\* the unedited and new-content rows whose text is empty once trimmed of
\* whitespace
BlankRows ==
    {r \in Rows : \/ is_unedited_tr(r) /\ compute_md5(r[2].text) = <<>>
                  \/ is_new_content_tr(r) /\ compute_md5(r[3].text) = <<>>}

\* C14 (as claimed): an unedited or new-content row whose text is empty
\* after trimming whitespace creates no block and no alias entry and does
\* not fail the revision.
C14_BlankRowIsSkipped ==
    [][ \A r \in BlankRows :
          ParseRowOf(r) =>
            /\ blocks' = blocks
            /\ hash_lookup' = hash_lookup
            /\ exc' = NoException
            /\ pc' = "rows" ]_vars

\* the new-content rows that are moved-right and not blank
MovedRightRows ==
    {r \in Rows : /\ is_new_content_tr(r)
                  /\ is_moved_right_tr(r)
                  /\ Len(Strip(r[3].text, {" "})) > 0}

\* the fingerprint of the paired left-side text of a moved-right row
PairedHash(r) == compute_md5(r[2].anchor)

\* the pair of revisions whose diff is being applied
CurrentPair == <<SourceRevisions[i], SourceRevisions[i + 1]>>

\* C15: a moved-right row whose paired left-side text is not stored inserts
\* under h_new the block a modification row with an unseen old text would
\* insert: ingested = false, revision_ids = [unknown, curr.id],
\* reply_chain = [h_new], root_hash = curr_section_hash, user and timestamp
\* of curr; and the tag move is appended.
C15_UnseenMoveLikeUnseenModification ==
    [][ \A r \in MovedRightRows :
          (PairedHash(r) \notin DOMAIN blocks /\ ParseRowOf(r)) =>
            LET h_new == compute_md5(r[3].text)
                like  == modify_unseen_tr(CurrentSt, CurrentPair,
                                          ModificationRow(r[2].anchor, r[3].text))
            IN /\ h_new \in DOMAIN blocks'
               /\ blocks'[h_new] = like.blocks[h_new]
               /\ blocks'[h_new].ingested = FALSE
               /\ blocks'[h_new].revision_ids = <<Unknown, SourceRevisions[i + 1].revid>>
               /\ blocks'[h_new].reply_chain = <<h_new>>
               /\ blocks'[h_new].root_hash = curr_section_hash
               /\ blocks'[h_new].user = RevUser(SourceRevisions[i + 1])
               /\ blocks'[h_new].timestamp = SourceRevisions[i + 1].timestamp
               /\ behavior' = Append(behavior, "move") ]_vars

\* C15 witness: below a heading, the row applied last moved in a text whose
\* paired left-side text was never stored; the block it inserted is not
\* ingested and starts its revision ids with unknown.
C15_Witness ==
    /\ pc = "rows"
    /\ tr \in MovedRightRows
    /\ PairedHash(tr) \notin DOMAIN hash_lookup
    /\ curr_section_hash \in DOMAIN blocks
    /\ compute_md5(tr[3].text) \in DOMAIN blocks
    /\ blocks[compute_md5(tr[3].text)].revision_ids[1] = Unknown
    /\ behavior[Len(behavior)] = "move"

\* the first revision of the run has been applied and its diff held two
\* rows: a new-content row of a section heading, then a new-content row of
\* a comment (by the same author, the revision's)
HeadingThenComment ==
    /\ pc \in {"loop", "idle"}
    /\ nrows = 2
    /\ Len(revisions) = 1
    /\ revisions[1][2] = <<"create_section", "add_comment">>

\* the utterances structured assembly emits for the store
StructuredCorpus == convert_intermediate_to_corpus(blocks, hash_lookup)

\* C16 (as claimed): after one revision that adds a section heading and
\* then a comment, the store holds two blocks, the comment's root_hash is
\* the heading's hash, and structured assembly emits for the comment an
\* utterance whose text is the comment's text alone and whose reply_to is
\* the heading's hash.
C16_HeadingThenCommentUtterance ==
    HeadingThenComment =>
      /\ Cardinality(DOMAIN blocks) = 2
      /\ \E h \in DOMAIN blocks, c \in DOMAIN blocks :
           /\ blocks[h].is_header = PyTrue
           /\ blocks[c].is_header = PyFalse
           /\ blocks[c].root_hash = h
           /\ \E u \in StructuredCorpus :
                /\ u.text = blocks[c].text
                /\ u.reply_to = h

\* the row applied last was a modification row that rewrote the stored
\* block h_old to h_new (the branch of an unseen old text leaves ingested
\* false), and it did not raise
JustRewritten(h_old, h_new) ==
    /\ pc = "rows"
    /\ Len(tr) = 4
    /\ is_modification_tr(tr)
    /\ h_old = compute_md5(tr[2].text)
    /\ h_new = compute_md5(tr[4].text)
    /\ h_old # h_new
    /\ h_new \in DOMAIN blocks
    /\ blocks[h_new].ingested

\* h_old resolves to h_new, by itself and in the reply_chain of every
\* other block of the store b with alias map l
ResolvesTo(b, l, h_old, h_new) ==
    /\ find_ultimate_hash(l, h_old) = h_new
    /\ \A x \in DOMAIN b \ {h_new} :
         \A k \in 1..Len(b[x].reply_chain) :
           b[x].reply_chain[k] = h_old =>
             find_ultimate_hash(l, b[x].reply_chain[k]) = h_new

\* the hashes of the texts of the model
Hashes == {compute_md5(t) : t \in Texts}

\* C17 (as claimed): after a modification row rewrote a stored block from
\* h_old to h_new, h_old is no key of the block store and resolves to
\* h_new, by itself and inside the reply_chain of every other stored
\* block, and this is still so after the next row when that row leaves
\* the block at h_new in the store.
C17_OldHashResolvesToNew ==
    [][ \A h_old \in Hashes, h_new \in Hashes :
          JustRewritten(h_old, h_new) =>
            /\ h_old \notin DOMAIN blocks
            /\ ResolvesTo(blocks, hash_lookup, h_old, h_new)
            /\ (h_new \in DOMAIN blocks' /\ blocks'[h_new] = blocks[h_new]) =>
                 ResolvesTo(blocks', hash_lookup', h_old, h_new) ]_vars

\* C18: a moved-right row whose paired left-side text is a stored block
\* takes that block out of its old key and stores it under the fingerprint
\* of the moved text, with the revision id appended and root_hash set to
\* the current section hash of the diff (after a heading row of the same
\* diff: that heading's hash).
C18_MoveTakesCurrentSection ==
    [][ \A r \in MovedRightRows :
          (PairedHash(r) \in DOMAIN blocks /\ ParseRowOf(r)) =>
            LET h_old == PairedHash(r)
                h_new == compute_md5(r[3].text)
            IN /\ h_new \in DOMAIN blocks'
               /\ h_old # h_new => h_old \notin DOMAIN blocks'
               /\ blocks'[h_new].root_hash = curr_section_hash
               /\ blocks'[h_new].revision_ids =
                    Append(blocks[h_old].revision_ids, SourceRevisions[i + 1].revid)
               /\ blocks'[h_new].reply_chain = blocks[h_old].reply_chain
               /\ blocks'[h_new].ingested = blocks[h_old].ingested
               /\ blocks'[h_new].text = IF h_old # h_new THEN r[3].text ELSE blocks[h_old].text
               /\ hash_lookup'[h_old] = h_new
               /\ curr_section_hash' = curr_section_hash ]_vars

\* C18 witness: the diff added a heading and the row applied last moved a
\* stored block, with its text changed, below it: the block is stored
\* under its new hash and its root_hash is the hash of that heading.
C18_Witness ==
    /\ pc = "rows"
    /\ tr \in MovedRightRows
    /\ "create_section" \in {behavior[k] : k \in 1..Len(behavior)}
    /\ curr_section_hash \in DOMAIN blocks
    /\ blocks[curr_section_hash].is_header = PyTrue
    /\ LET h_old == PairedHash(tr)
           h_new == compute_md5(tr[3].text)
       IN /\ h_old # h_new
          /\ h_old \notin DOMAIN blocks
          /\ h_old \in DOMAIN hash_lookup
          /\ hash_lookup[h_old] = h_new
          /\ h_new \in DOMAIN blocks
          /\ blocks[h_new].root_hash = curr_section_hash
          /\ Len(blocks[h_new].revision_ids) >= 2

\* C19 (as claimed): rough-mode assembly completes on every store that
\* applying revisions can produce, also on one that holds blocks with no
\* root; the corpus then holds no utterance of a block whose root is
\* nothing.
C19_RoughAssemblyCompletes ==
    AtBoundary =>
      /\ rough_convert_raises(blocks, hash_lookup) = {}
      /\ \A h \in rough_utterance_ids(blocks, hash_lookup) :
           blocks[h].root_hash \notin {Absent, None}

\* the regular new-content rows of a comment: not moved-right, not blank
\* and no section heading
CommentRows ==
    {r \in Rows : /\ is_new_content_tr(r)
                  /\ ~is_moved_right_tr(r)
                  /\ Len(Strip(r[3].text, {" "})) > 0
                  /\ ~is_new_section_text(r[3].text)}

\* the row applied last was an unedited row of a block of the store
JustUnedited ==
    /\ pc = "rows"
    /\ Len(tr) = 4
    /\ is_unedited_tr(tr)
    /\ Len(Strip(tr[2].text, {" "})) > 0
    /\ compute_md5(tr[2].text) \in DOMAIN blocks

Parent(h) ==
    find_ultimate_hash(hash_lookup, blocks[h].reply_chain[Len(blocks[h].reply_chain) - 1])

\* n steps up from h stay inside the store
RECURSIVE WalkStored(_, _)
WalkStored(h, n) ==
    /\ h \in DOMAIN blocks
    /\ n > 0 => /\ Len(blocks[h].reply_chain) >= 2
                /\ WalkStored(Parent(h), n - 1)

\* the hash n steps up from h
RECURSIVE WalkUp(_, _)
WalkUp(h, n) == IF n = 0 THEN h ELSE WalkUp(Parent(h), n - 1)

\* C21 (as claimed): for 0 < this_depth <= prev_depth, when the ancestors
\* on the way are stored, compute_reply_hash(prev_hash, prev_depth,
\* this_depth) is the hash prev_depth - this_depth parents up from
\* prev_hash, and not nothing.
C21_ReplyHashWalksUp ==
    \A h \in DOMAIN blocks :
      \A prev_depth \in 1..MaxDepth :
        \A this_depth \in 1..prev_depth :
          WalkStored(h, prev_depth - this_depth) =>
            /\ compute_reply_hash(blocks, h, prev_depth, this_depth) # None
            /\ compute_reply_hash(blocks, h, prev_depth, this_depth)
                 = WalkUp(h, prev_depth - this_depth)

\* the modification rows
ModificationRows == {r \in Rows : Len(r) = 4 /\ is_modification_tr(r)}

\* the row applied last added, moved in or modified a block
JustIngested == pc = "rows" /\ last_block_was_ingested

\* C22 (as claimed): when the row just before it added or modified a
\* block, a regular non-heading new-content row stores its block with the
\* reply_chain of that previous block, h_new appended, and the previous
\* block (when it is not replaced under the same hash) has is_followed
\* true; a modification row of a stored block gives the rewritten block
\* its reply_chain by the same rule.
C22_ContinuationCopiesPreviousChain ==
    [][ /\ \A r \in CommentRows :
             (/\ JustIngested
              /\ ~compute_text_depth_raises(r[3].text)
              /\ ParseRowOf(r)) =>
               LET h_new == compute_md5(r[3].text) IN
               /\ h_new \in DOMAIN blocks'
               /\ blocks'[h_new].reply_chain = Append(blocks[last_hash].reply_chain, h_new)
               /\ last_hash # h_new => blocks'[last_hash].is_followed
        /\ \A r \in ModificationRows :
             (/\ JustIngested
              /\ compute_md5(r[2].text) \in DOMAIN blocks
              /\ ~compute_text_depth_raises(r[4].text)
              /\ ParseRowOf(r)) =>
               LET h_new == compute_md5(r[4].text) IN
               /\ pc' = "rows"
               /\ h_new \in DOMAIN blocks'
               /\ blocks'[h_new].reply_chain[Len(blocks'[h_new].reply_chain)] = h_new
               /\ last_hash \in DOMAIN blocks' /\ last_hash # h_new =>
                    /\ blocks'[h_new].reply_chain
                         = Append(blocks'[last_hash].reply_chain, h_new)
                    /\ blocks'[last_hash].is_followed ]_vars

\* the unedited rows whose text is not empty
UneditedRows ==
    {r \in Rows : /\ Len(r) = 4
                  /\ is_unedited_tr(r)
                  /\ Len(Strip(r[2].text, {" "})) > 0}

\* C23 (as claimed): an unedited row whose hash is a key of the store
\* leaves blocks and hash_lookup unchanged, sets curr_section_hash to the
\* stored block's root_hash, last_hash and last_depth to the row's hash
\* and depth, last_block_was_ingested to false, and the diff goes on; also
\* for a block that an earlier unedited row created.
C23_SeenUneditedRowOnlyMovesCursor ==
    [][ \A r \in UneditedRows :
          (/\ compute_md5(r[2].text) \in DOMAIN blocks
           /\ ParseRowOf(r)) =>
            /\ pc' = "rows"
            /\ blocks' = blocks
            /\ hash_lookup' = hash_lookup
            /\ curr_section_hash' = blocks[compute_md5(r[2].text)].root_hash
            /\ last_hash' = compute_md5(r[2].text)
            /\ last_depth' = compute_text_depth(r[2].text)
            /\ ~last_block_was_ingested' ]_vars

\* the concatenation of the segments
RECURSIVE Flatten(_)
Flatten(segments) ==
    IF segments = <<>> THEN <<>> ELSE Head(segments) \o Flatten(Tail(segments))

\* every hash of the chain resolves to a stored block
ChainResolves(reply_chain) ==
    \A k \in 1..Len(reply_chain) :
      find_ultimate_hash(hash_lookup, reply_chain[k]) \in DOMAIN blocks

\* the segments of the reply_chain of the block stored under h
SegmentsOf(h) == segment_contiguous_blocks(blocks, hash_lookup, blocks[h].reply_chain)

\* C24: for the reply_chain of every stored block whose hashes all resolve
\* to stored blocks, segment_contiguous_blocks returns non-empty segments
\* whose concatenation is the chain of canonical hashes in order; the
\* blocks of one segment have one user, and the last block of a segment and
\* the first block of the next have different users.
C24_SegmentsPartitionTheChain ==
    \A h \in DOMAIN blocks :
      ChainResolves(blocks[h].reply_chain) =>
        LET chain    == blocks[h].reply_chain
            segments == SegmentsOf(h).segments
        IN
        /\ SegmentsOf(h).raised = NoException
        /\ \A s \in 1..Len(segments) : Len(segments[s]) > 0
        /\ Flatten(segments)
             = [k \in 1..Len(chain) |-> find_ultimate_hash(hash_lookup, chain[k])]
        /\ \A s \in 1..Len(segments) :
             \A k \in 1..Len(segments[s]) :
               blocks[segments[s][k]].user = blocks[segments[s][1]].user
        /\ \A s \in 1..(Len(segments) - 1) :
             blocks[Last(segments[s])].user # blocks[segments[s + 1][1]].user

\* a stored chain of resolving hashes that is cut into two segments
C24_Witness ==
    \E h \in DOMAIN blocks :
      /\ ChainResolves(blocks[h].reply_chain)
      /\ Len(SegmentsOf(h).segments) >= 2

\* the structured assembly completes: its second loop does not raise
StructuredCompletes == second_loop_raises(blocks, hash_lookup) = {}

\* the k-th segment of the chain of the block stored under h is added to
\* complete_utterances by the first loop's iteration for h
DerivedFrom(h, k) ==
    /\ k \in 1..Len(SegmentsOf(h).segments)
    /\ SegmentsOf(h).segments[k] \in first_loop_body(blocks, hash_lookup, h).added

\* C25 (as claimed): every utterance of the structured corpus has the hash
\* of its first block as id, and its reply_to is the first hash of the
\* segment just before its own segment in the chain it was derived from,
\* or None when its segment is the first of that chain.
C25_ReplyToIsPrecedingSegment ==
    StructuredCompletes =>
      \A h \in DOMAIN blocks :
        \A k \in 1..Len(SegmentsOf(h).segments) :
          DerivedFrom(h, k) =>
            LET segments == SegmentsOf(h).segments
                u == Utterance(blocks, hash_lookup, segments[k], FALSE)
            IN
            /\ u \in StructuredCorpus
            /\ u.id = segments[k][1]
            /\ u.reply_to = IF k = 1 THEN None ELSE segments[k - 1][1]

\* C26: in rough mode the utterances a root's group emits form one chain:
\* the first has the root as id and reply_to None, the others follow in
\* non-decreasing timestamp order, no id is emitted twice, and every
\* utterance after the first replies to the one emitted just before it.
C26_RoughGroupIsOneChain ==
    \A root \in rough_roots(blocks, hash_lookup) :
      \A out \in rough_group(blocks, hash_lookup, root) :
        /\ out[1].id = root
        /\ out[1].reply_to = None
        /\ \A a, b \in 2..Len(out) : a < b => out[a].timestamp <= out[b].timestamp
        /\ \A a, b \in 1..Len(out) : a # b => out[a].id # out[b].id
        /\ \A a \in 2..Len(out) : out[a].reply_to = out[a - 1].id
        /\ {out[a].id : a \in 1..Len(out)}
             = {u.id : u \in children_of_root(blocks, hash_lookup, root)}

\* a group whose sorted list does not start with the header and whose
\* emitted chain has three utterances
C26_Witness ==
    \E root \in rough_roots(blocks, hash_lookup) :
      \E l \in sorted_utt_lists(children_of_root(blocks, hash_lookup, root)) :
        /\ ind_of_root(l, root) > 1
        /\ Len(emit_group(l, root)) >= 3

\* generate_intermediate_from_scratch or update_intermediate has returned
DriverReturned == pc = "idle" /\ run \in {"scratch", "update"}

\* C27 (as claimed): after generate_intermediate_from_scratch or
\* update_intermediate returns, the revision log is not empty and the id
\* of its last entry is the id of the last revision the source listed,
\* also for a page with a single revision.
C27_LogEndsAtNewestRevision ==
    DriverReturned =>
      /\ revisions # <<>>
      /\ Last(revisions)[1] = SourceRevisions[hi].revid

\* C28 (as claimed): no two utterances of the structured corpus share an
\* id: two segments that are emitted and start with the same block are the
\* same segment.
C28_UtteranceIdsAreUnique ==
    (AtBoundary /\ StructuredCompletes) =>
      \A utt1, utt2 \in complete_utterances(blocks, hash_lookup) :
        Utterance(blocks, hash_lookup, utt1, FALSE).id
          = Utterance(blocks, hash_lookup, utt2, FALSE).id => utt1 = utt2

\* the segments the structured assembly emits as utterances (their
\* constituent_blocks); none when the second loop raises
EmittedSegments ==
    IF StructuredCompletes THEN complete_utterances(blocks, hash_lookup) ELSE {}

\* the keys of reverse_block_index
ReverseBlockIndex == UNION {{utt[k] : k \in 1..Len(utt)} : utt \in EmittedSegments}

\* C29 (as claimed): every stored block is a constituent block of some
\* utterance of the structured corpus and a key of reverse_block_index.
C29_EveryBlockIsInAnUtterance ==
    AtBoundary => \A h \in DOMAIN blocks : h \in ReverseBlockIndex

====
